---- MODULE Spec2Model ----
(***************************************************************************)
(* Model of SberbankClient (src/__init__.py): construction, the action     *)
(* methods that build a path and parameters, the execute primitive, the    *)
(* error check of a decoded response and the two key-case translators.     *)
(*                                                                         *)
(* Python strings are sequences of one-character strings, so that          *)
(* str.title, str.find, str.isdigit, int() and the key translations are    *)
(* computed and not assumed.  A dict is the sequence of its (key, value)   *)
(* pairs in insertion order.  A Python value is a record tagged with its   *)
(* type: "str", "int", "dict", "list" or "none".                           *)
(***************************************************************************)
EXTENDS Integers, Sequences, FiniteSets, TLC

\* ------------------------------------------------------------------------
\* Characters and strings
\* ------------------------------------------------------------------------
LowerLetters ==
  <<"a","b","c","d","e","f","g","h","i","j","k","l","m",
    "n","o","p","q","r","s","t","u","v","w","x","y","z">>

UpperLetters ==
  <<"A","B","C","D","E","F","G","H","I","J","K","L","M",
    "N","O","P","Q","R","S","T","U","V","W","X","Y","Z">>

DigitChars == <<"0","1","2","3","4","5","6","7","8","9">>

\* str.islower / str.isupper / str.isdigit / str.isalnum on one character
IsLowerChar(c) == \E i \in 1..26 : LowerLetters[i] = c

IsUpperChar(c) == \E i \in 1..26 : UpperLetters[i] = c

IsDigitChar(c) == \E i \in 1..10 : DigitChars[i] = c

IsLetterChar(c) == IsLowerChar(c) \/ IsUpperChar(c)

IsAlnumChar(c) == IsLetterChar(c) \/ IsDigitChar(c)

\* str.lower / str.upper on one character
LowerChar(c) ==
  IF IsUpperChar(c)
  THEN LowerLetters[CHOOSE i \in 1..26 : UpperLetters[i] = c]
  ELSE c

UpperChar(c) ==
  IF IsLowerChar(c)
  THEN UpperLetters[CHOOSE i \in 1..26 : LowerLetters[i] = c]
  ELSE c

\* str.title(): a letter that follows a non-letter (or starts the string) is
\* upper-cased, every other letter is lower-cased.
Title(s) ==
  [i \in 1..Len(s) |->
     IF IsLetterChar(s[i])
     THEN IF i = 1 \/ ~IsLetterChar(s[i-1])
          THEN UpperChar(s[i])
          ELSE LowerChar(s[i])
     ELSE s[i]]

\* str.lstrip('_')
RECURSIVE LStripUnderscore(_)
LStripUnderscore(s) ==
  IF s # <<>> /\ Head(s) = "_" THEN LStripUnderscore(Tail(s)) ELSE s

\* str.find(sub): index (from 0) of the first occurrence, -1 when none
Find(s, sub) ==
  LET hits == {i \in 1..(Len(s) - Len(sub) + 1) :
                 SubSeq(s, i, i + Len(sub) - 1) = sub}
  IN IF hits = {} THEN -1
     ELSE (CHOOSE i \in hits : \A j \in hits : i <= j) - 1

\* str.isdigit()
IsDigitStr(s) == s # <<>> /\ \A i \in 1..Len(s) : IsDigitChar(s[i])

\* int(s) for a string of decimal digits
RECURSIVE IntOfStr(_)
IntOfStr(s) ==
  IF s = <<>> THEN 0
  ELSE 10 * IntOfStr(SubSeq(s, 1, Len(s) - 1))
       + ((CHOOSE i \in 1..10 : DigitChars[i] = s[Len(s)]) - 1)

\* ------------------------------------------------------------------------
\* Python values and dicts
\* ------------------------------------------------------------------------
PyNone == [t |-> "none", v |-> 0]

PyStr(s) == [t |-> "str", v |-> s]

PyInt(n) == [t |-> "int", v |-> n]

PyDict(d) == [t |-> "dict", v |-> d]

PyList(l) == [t |-> "list", v |-> l]

IsDict(x) == x.t = "dict"

IsStr(x) == x.t = "str"

\* Python truth value: PyNone, 0, '' , {} and [] are false
Truthy(x) ==
  CASE x.t = "none" -> FALSE
    [] x.t = "int"  -> x.v # 0
    [] OTHER        -> x.v # <<>>

\* key in d
DHas(d, k) == \E i \in 1..Len(d) : d[i][1] = k

\* d.get(k): the value, PyNone when the key is absent
DGet(d, k) ==
  IF DHas(d, k) THEN d[CHOOSE i \in 1..Len(d) : d[i][1] = k][2] ELSE PyNone

\* d[k] = v: in place when the key exists, appended otherwise
DSet(d, k, v) ==
  IF DHas(d, k)
  THEN [i \in 1..Len(d) |-> IF d[i][1] = k THEN <<k, v>> ELSE d[i]]
  ELSE Append(d, <<k, v>>)

DKeys(d) == {d[i][1] : i \in 1..Len(d)}

\* ------------------------------------------------------------------------
\* Key-case translation
\* ------------------------------------------------------------------------
\* The characters of key.title() that are alphanumeric
TitleAlnum(key) == SelectSeq(Title(key), IsAlnumChar)

\* _snake_to_camel, one key.  A key with '_' whose title() has no
\* alphanumeric character makes _key[0] raise IndexError (see
\* SnakeToCamelRaises); the operator then yields the empty key.
SnakeToCamelKey(key) ==
  IF Find(key, <<"_">>) # -1
  THEN LET _key == TitleAlnum(key)
       IN IF _key = <<>> THEN <<>>
          ELSE <<LowerChar(_key[1])>> \o Tail(_key)
  ELSE key

\* _camel_to_snake, one key
RECURSIVE UnderscoreUpper(_)
UnderscoreUpper(key) ==
  IF key = <<>> THEN <<>>
  ELSE (IF IsUpperChar(Head(key)) THEN <<"_", LowerChar(Head(key))>>
        ELSE <<Head(key)>>) \o UnderscoreUpper(Tail(key))

\* A translation that lower-cases the key and inserts no separator
CamelToSnakeKey_NoSeparator(key) ==
  LStripUnderscore([i \in 1..Len(key) |-> LowerChar(key[i])])

CamelToSnakeKey(key) == LStripUnderscore(UnderscoreUpper(key))

\* _snake_to_camel raises IndexError on some key of the dict or of a dict
\* nested as one of its values
RECURSIVE SnakeToCamelRaises(_)
SnakeToCamelRaises(data) ==
  \E i \in 1..Len(data) :
     \/ Find(data[i][1], <<"_">>) # -1 /\ TitleAlnum(data[i][1]) = <<>>
     \/ IsDict(data[i][2]) /\ SnakeToCamelRaises(data[i][2].v)

\* _snake_to_camel: the loop over the keys in insertion order
RECURSIVE SnakeToCamelFrom(_, _, _)
SnakeToCamelFrom(data, i, camel_data) ==
  IF i > Len(data) THEN camel_data
  ELSE LET key == data[i][1]
           val == data[i][2]
           new == IF IsDict(val)
                  THEN PyDict(SnakeToCamelFrom(val.v, 1, <<>>))
                  ELSE val
       IN SnakeToCamelFrom(data, i + 1,
                           DSet(camel_data, SnakeToCamelKey(key), new))

SnakeToCamel(data) == SnakeToCamelFrom(data, 1, <<>>)

\* _camel_to_snake: the loop over the keys in insertion order
RECURSIVE CamelToSnakeFrom(_, _, _)
CamelToSnakeFrom(data, i, snake_data) ==
  IF i > Len(data) THEN snake_data
  ELSE LET key == data[i][1]
           val == data[i][2]
           new == IF IsDict(val)
                  THEN PyDict(CamelToSnakeFrom(val.v, 1, <<>>))
                  ELSE val
       IN CamelToSnakeFrom(data, i + 1,
                           DSet(snake_data, CamelToSnakeKey(key), new))

CamelToSnake(data) == CamelToSnakeFrom(data, 1, <<>>)

\* dict == dict in Python: same keys with equal values, whatever the order
RECURSIVE DictEq(_, _)
DictEq(a, b) ==
  /\ DKeys(a) = DKeys(b)
  /\ \A k \in DKeys(a) :
        LET x == DGet(a, k)
            y == DGet(b, k)
        IN IF IsDict(x) /\ IsDict(y) THEN DictEq(x.v, y.v)
           ELSE x.t = y.t /\ x = y

\* ------------------------------------------------------------------------
\* String literals of the source
\* ------------------------------------------------------------------------
K_token == <<"t","o","k","e","n">>

K_userName == <<"u","s","e","r","N","a","m","e">>

K_password == <<"p","a","s","s","w","o","r","d">>

K_language == <<"l","a","n","g","u","a","g","e">>

K_errorCode == <<"e","r","r","o","r","C","o","d","e">>

K_errorMessage == <<"e","r","r","o","r","M","e","s","s","a","g","e">>

K_ErrorMessage == <<"E","r","r","o","r","M","e","s","s","a","g","e">>

K_error == <<"e","r","r","o","r">>

K_code == <<"c","o","d","e">>

K_message == <<"m","e","s","s","a","g","e">>

K_description == <<"d","e","s","c","r","i","p","t","i","o","n">>

K_orderNumber == <<"o","r","d","e","r","N","u","m","b","e","r">>

K_orderId == <<"o","r","d","e","r","I","d">>

K_amount == <<"a","m","o","u","n","t">>

K_merchant == <<"m","e","r","c","h","a","n","t">>

K_paymentToken == <<"p","a","y","m","e","n","t","T","o","k","e","n">>

K_payment_token == <<"p","a","y","m","e","n","t","_","t","o","k","e","n">>

K_ip == <<"i","p">>

K_binding_id == <<"b","i","n","d","i","n","g","_","i","d">>

K_returnUrl == <<"r","e","t","u","r","n","U","r","l">>

K_currency == <<"c","u","r","r","e","n","c","y">>

K_jsonParams == <<"j","s","o","n","P","a","r","a","m","s">>

K_mdOrder == <<"m","d","O","r","d","e","r">>

K_onFailedPaymentBackUrl == <<"o","n","F","a","i","l","e","d","P","a","y","m","e","n","t","B","a","c","k","U","r","l">>

API_PREFIX_DEFAULT == <<"/","p","a","y","m","e","n","t","/","r","e","s","t","/">>

API_PREFIX_APPLE == <<"/","p","a","y","m","e","n","t","/","a","p","p","l","e","p","a","y","/">>

API_PREFIX_GOOGLE == <<"/","p","a","y","m","e","n","t","/","g","o","o","g","l","e","/">>

API_PREFIX_SAMSUNG == <<"/","p","a","y","m","e","n","t","/","s","a","m","s","u","n","g","/">>

PATH_payment_do == <<"p","a","y","m","e","n","t",".","d","o">>

PATH_register_do == <<"r","e","g","i","s","t","e","r",".","d","o">>

PATH_registerPreAuth_do == <<"r","e","g","i","s","t","e","r","P","r","e","A","u","t","h",".","d","o">>

PATH_deposit_do == <<"d","e","p","o","s","i","t",".","d","o">>

PATH_recurrentPayment == <<"p","a","y","m","e","n","t","/","r","e","c","u","r","r","e","n","t","P","a","y","m","e","n","t",".","d","o">>

PATH_samsungWeb == <<"p","a","y","m","e","n","t","/","s","a","m","s","u","n","g","W","e","b","/","p","a","y","m","e","n","t",".","d","o">>

GET == <<"G","E","T">>

POST == <<"P","O","S","T">>

FORM_URLENCODED == <<"a","p","p","l","i","c","a","t","i","o","n","/","x","-","w","w","w","-","f","o","r","m","-","u","r","l","e","n","c","o","d","e","d">>

APPLICATION_JSON == <<"a","p","p","l","i","c","a","t","i","o","n","/","j","s","o","n">>

NO_CACHE == <<"n","o","-","c","a","c","h","e">>

\* The three messages of the source are Russian; they are written here in
\* Latin transliteration, character for character of the transliteration.
UNKNOWN_ERROR == <<"N","e","i","z","v","e","s","t","n","a","y","a"," ","o","s","h","i","b","k","a">>

HTTP_CODE_MSG == <<"H","T","T","P","-","k","o","d",":"," ">>

UNAVAILABLE_MSG == <<"S","b","e","r","b","a","n","k"," ","n","e","d","o","s","t","u","p","e","n">>


\* ------------------------------------------------------------------------
\* Program constants
\* ------------------------------------------------------------------------
ACTION_SUCCESS == 0

HTTP_OK == 200

\* str(n) for n >= 0, as '%s' % response.status formats the status
RECURSIVE StrOfInt(_)
StrOfInt(n) ==
  IF n < 10 THEN <<DigitChars[n + 1]>>
  ELSE StrOfInt(n \div 10) \o <<DigitChars[(n % 10) + 1]>>

\* ------------------------------------------------------------------------
\* SberbankClient.__init__
\* ------------------------------------------------------------------------
\* kwargs.get(name, default)
KwGet(kwargs, name, default) ==
  IF name \in DOMAIN kwargs THEN kwargs[name] ELSE default

\* The authentication branch of __init__: the attributes it sets, or the
\* exception it raises.  `raised` is "" when nothing is raised.
InitAuth(kwargs) ==
  IF Truthy(KwGet(kwargs, "username", PyNone))
     /\ Truthy(KwGet(kwargs, "password", PyNone))
  THEN IF Truthy(KwGet(kwargs, "token", PyNone))
       THEN [raised |-> "Exception", attrs |-> <<>>]
       ELSE [raised |-> "",
             attrs  |-> [username |-> kwargs["username"],
                         password |-> kwargs["password"]]]
  ELSE IF Truthy(KwGet(kwargs, "token", PyNone))
       THEN [raised |-> "", attrs |-> [token |-> kwargs["token"]]]
       ELSE [raised |-> "Exception", attrs |-> <<>>]

\* The http_method branch of __init__
InitHttpMethod(kwargs) ==
  IF Truthy(KwGet(kwargs, "http_method", PyNone))
  THEN IF kwargs["http_method"] \notin {PyStr(GET), PyStr(POST)}
       THEN [raised |-> "BadRequestException", attrs |-> <<>>]
       ELSE [raised |-> "",
             attrs  |-> [http_method |-> kwargs["http_method"]]]
  ELSE [raised |-> "", attrs |-> <<>>]

\* SberbankClient(api_uri, session, **kwargs): the exception raised, or the
\* object with exactly the attributes __init__ has set on it.
InitClient(api_uri, kwargs) ==
  LET auth == InitAuth(kwargs)
      verb == InitHttpMethod(kwargs)
      rest == [api_uri        |-> api_uri,
               language       |-> KwGet(kwargs, "language", PyNone),
               currency       |-> KwGet(kwargs, "currency", PyNone),
               prefix_default |-> KwGet(kwargs, "prefix_default",
                                        PyStr(API_PREFIX_DEFAULT)),
               prefix_apple   |-> KwGet(kwargs, "prefix_apple",
                                        PyStr(API_PREFIX_APPLE)),
               prefix_google  |-> KwGet(kwargs, "prefix_google",
                                        PyStr(API_PREFIX_GOOGLE)),
               prefix_samsung |-> KwGet(kwargs, "prefix_samsung",
                                        PyStr(API_PREFIX_SAMSUNG))]
  IN IF auth.raised # "" THEN [raised |-> auth.raised, self |-> <<>>]
     ELSE IF verb.raised # "" THEN [raised |-> verb.raised, self |-> <<>>]
     ELSE [raised |-> "", self |-> auth.attrs @@ rest @@ verb.attrs]

\* hasattr(self, name)
HasAttr(self, name) == name \in DOMAIN self

\* ------------------------------------------------------------------------
\* SberbankClient._handle_errors
\* ------------------------------------------------------------------------
\* response.get('error', {})
ErrorField(response) ==
  IF DHas(response, K_error) THEN DGet(response, K_error) ELSE PyDict(<<>>)

\* The first chain of _handle_errors: the value taken as error_code.
\* `raised` is "AttributeError" when .get is called on an `error` field
\* that is not a dict.
SelectErrorCode(response) ==
  IF Truthy(DGet(response, K_errorCode))
  THEN [raised |-> "", v |-> DGet(response, K_errorCode)]
  ELSE IF Truthy(DGet(response, K_ErrorMessage))
  THEN [raised |-> "", v |-> DGet(response, K_ErrorMessage)]
  ELSE IF ~IsDict(ErrorField(response))
  THEN [raised |-> "AttributeError", v |-> PyNone]
  ELSE IF Truthy(DGet(ErrorField(response).v, K_code))
  THEN [raised |-> "", v |-> DGet(ErrorField(response).v, K_code)]
  ELSE [raised |-> "", v |-> PyInt(ACTION_SUCCESS)]

\* The second chain of _handle_errors: the value taken as error_message
SelectErrorMessage(response) ==
  IF Truthy(DGet(response, K_errorMessage))
  THEN [raised |-> "", v |-> DGet(response, K_errorMessage)]
  ELSE IF Truthy(DGet(response, K_ErrorMessage))
  THEN [raised |-> "", v |-> DGet(response, K_ErrorMessage)]
  ELSE IF ~IsDict(ErrorField(response))
  THEN [raised |-> "AttributeError", v |-> PyNone]
  ELSE IF Truthy(DGet(ErrorField(response).v, K_message))
  THEN [raised |-> "", v |-> DGet(ErrorField(response).v, K_message)]
  ELSE IF Truthy(DGet(ErrorField(response).v, K_description))
  THEN [raised |-> "", v |-> DGet(ErrorField(response).v, K_description)]
  ELSE [raised |-> "", v |-> PyStr(UNKNOWN_ERROR)]

\* A code that is passed on as the response gave it
CoerceCode_Verbatim(error_code) == error_code

\* isinstance(error_code, str) and error_code.isdigit() -> int(error_code)
CoerceCode(error_code) ==
  IF IsStr(error_code) /\ IsDigitStr(error_code.v)
  THEN PyInt(IntOfStr(error_code.v))
  ELSE error_code

\* The end of _handle_errors for the selected code and message: the
\* coercion of the code and `if error_code != self.ACTION_SUCCESS: raise`
RaiseIfError(code, msg) ==
  IF code.raised # ""
  THEN [raised |-> code.raised, message |-> PyNone, code |-> PyNone]
  ELSE IF msg.raised # ""
  THEN [raised |-> msg.raised, message |-> PyNone, code |-> PyNone]
  ELSE IF CoerceCode(code.v) # PyInt(ACTION_SUCCESS)
  THEN [raised  |-> "ActionException",
        message |-> msg.v,
        code    |-> CoerceCode(code.v)]
  ELSE [raised |-> "", message |-> PyNone, code |-> PyNone]

\* _handle_errors(response): what it raises ("" when it returns), with the
\* message and code of the ActionException.  A decoded body that is not a
\* dict has no .get and raises AttributeError.
HandleErrors(response) ==
  IF ~IsDict(response)
  THEN [raised |-> "AttributeError", message |-> PyNone, code |-> PyNone]
  ELSE RaiseIfError(SelectErrorCode(response.v),
                    SelectErrorMessage(response.v))

\* ------------------------------------------------------------------------
\* SberbankClient.execute
\* ------------------------------------------------------------------------
NoRequest == [sent |-> FALSE]

NoLog == [level |-> "none"]

\* action after the prefix_default is put before a path without leading '/'
FullAction(self, action) ==
  IF action[1] # "/" THEN self.prefix_default.v \o action ELSE action

\* rest != -1: the path contains prefix_default
IsRest(self, action) ==
  Find(FullAction(self, action), self.prefix_default.v) # -1

\* data after the default language is applied
WithLanguage(self, data) ==
  IF ~Truthy(DGet(data, K_language)) /\ Truthy(self.language)
  THEN DSet(data, K_language, self.language)
  ELSE data

\* An injection that writes the password of a username+password client
\* nowhere
InjectAuth_NoPassword(self, data) ==
  IF HasAttr(self, "token")
  THEN DSet(data, K_token, self.token)
  ELSE DSet(data, K_userName, self.username)

\* The credentials written into data on the rest branch
InjectAuth(self, data) ==
  IF HasAttr(self, "token")
  THEN DSet(data, K_token, self.token)
  ELSE DSet(DSet(data, K_userName, self.username),
            K_password, self.password)

\* A wallet request that keeps the configured verb
WalletMethod_Configured(self) == self.http_method

\* The verb of a request outside the rest branch: method = 'POST'
WalletMethod(self) == PyStr(POST)

\* A status check that lets client errors through
StatusIsFailure_ServerOnly(status) == status >= 500

\* response.status != 200
StatusIsFailure(status) == status # HTTP_OK

\* urlencode(data) / json.dumps(data): the encoding and the fields encoded
Urlencode(data) == [enc |-> "urlencode", fields |-> data]

JsonDumps(data) == [enc |-> "json", fields |-> data]

\* The request handed to session.request for a prepared parameter set
BuildRequest(self, action, data) ==
  IF IsRest(self, action)
  THEN [sent    |-> TRUE,
        method  |-> self.http_method,
        url     |-> self.api_uri \o FullAction(self, action),
        headers |-> [CacheControl |-> NO_CACHE,
                     ContentType  |-> FORM_URLENCODED],
        data    |-> Urlencode(InjectAuth(self, data))]
  ELSE [sent    |-> TRUE,
        method  |-> WalletMethod(self),
        url     |-> self.api_uri \o FullAction(self, action),
        headers |-> [CacheControl |-> NO_CACHE,
                     ContentType  |-> APPLICATION_JSON],
        data    |-> JsonDumps(data)]

\* A call that has raised, returned and logged nothing so far
NothingYet ==
  [raised |-> "", code |-> PyNone, message |-> PyNone,
   returned |-> PyNone, decoded |-> FALSE, log |-> NoLog]

\* The try block once the body is decoded to `response` and _handle_errors
\* has ended as `err`: the ActionException is logged and raised again, any
\* other exception leaves, otherwise the response is logged and returned in
\* caller case
AfterDecode(log_str, response, err) ==
  IF err.raised = "ActionException"
  THEN [NothingYet EXCEPT
          !.raised = "ActionException", !.decoded = TRUE,
          !.code = err.code, !.message = err.message,
          !.log = [level |-> "error", str |-> log_str,
                   detail |-> <<"action", err.code, err.message>>]]
  ELSE IF err.raised # ""
  THEN [NothingYet EXCEPT !.raised = err.raised, !.decoded = TRUE]
  ELSE [NothingYet EXCEPT
          !.decoded = TRUE,
          !.returned = PyDict(CamelToSnake(response.v)),
          !.log = [level |-> "info", str |-> log_str,
                   detail |-> <<"response", response>>]]

\* What happens inside `async with self.session.request(...)` once the
\* transport has answered or failed.  transport.kind is "raise" (with the
\* exception type in transport.exc) or "response" (status, body); a body is
\* [valid, doc]: whether json.loads accepts it and the document it decodes to.
InsideTry(log_str, transport) ==
  IF transport.kind = "raise"
  THEN [NothingYet EXCEPT !.raised = transport.exc]
  ELSE IF StatusIsFailure(transport.status)
  THEN [NothingYet EXCEPT
          !.raised = "BadResponseException",
          !.message = PyStr(HTTP_CODE_MSG \o StrOfInt(transport.status)),
          !.log = [level |-> "error", str |-> log_str,
                   detail |-> <<"msg", HTTP_CODE_MSG
                                       \o StrOfInt(transport.status)>>]]
  ELSE IF ~transport.body.valid
  THEN [NothingYet EXCEPT !.raised = "JSONDecodeError", !.decoded = TRUE]
  ELSE AfterDecode(log_str, transport.body.doc,
                   HandleErrors(transport.body.doc))

\* A log_str formatted after the credentials are written into data
LogData_AfterAuth(self, data) == InjectAuth(self, data)

\* The parameters formatted into log_str: data as it is when the f-string is
\* evaluated, before the rest branch writes the credentials into it
LogData(self, data) == data

\* An except clause that catches every exception
Caught_Any(exc) == exc # ""

\* except aiohttp.ClientConnectorError: the only exception of the try block
\* that is caught; it is logged and replaced by NetworkException.
Caught(exc) == exc = "ClientConnectorError"

ExceptClause(log_str, inner) ==
  IF Caught(inner.raised)
  THEN [inner EXCEPT
          !.raised = "NetworkException",
          !.message = PyStr(UNAVAILABLE_MSG),
          !.code = PyNone,
          !.log = [level |-> "error", str |-> log_str,
                   detail |-> <<"exc", inner.raised>>]]
  ELSE inner

\* execute left by an exception before the request is built
RaisedBeforeRequest(exc) ==
  [raised |-> exc, code |-> PyNone, message |-> PyNone,
   returned |-> PyNone, decoded |-> FALSE,
   log |-> NoLog, request |-> NoRequest]

\* log_str = f'{method} {uri}({data}):'
LogStr(self, action, data) ==
  [method |-> self.http_method,
   uri    |-> self.api_uri \o FullAction(self, action),
   data   |-> LogData(self, data)]

\* The try block with its except clause
TryExcept(log_str, transport) ==
  ExceptClause(log_str, InsideTry(log_str, transport))

\* execute from line 679 on, data being the parameters in gateway case with
\* the default language
ExecutePrepared(self, action, data, transport) ==
  TryExcept(LogStr(self, action, data), transport)
  @@ [request |-> BuildRequest(self, action, data)]

\* execute(action, **kwargs) against a transport that behaves as `transport`:
\* the request issued (if any), what is raised or returned, the line logged.
Execute(self, action, kwargs, transport) ==
  IF SnakeToCamelRaises(kwargs) \/ action = <<>>
  THEN RaisedBeforeRequest("IndexError")
  ELSE IF ~HasAttr(self, "http_method")
  THEN RaisedBeforeRequest("AttributeError")
  ELSE ExecutePrepared(self, action,
                       WithLanguage(self, SnakeToCamel(kwargs)), transport)

\* ------------------------------------------------------------------------
\* Inputs: constructor arguments, caller parameters, transport behaviour
\* ------------------------------------------------------------------------
\* A keyword argument that is not passed
Absent == [t |-> "absent", v |-> 0]

Opt(name, val) == IF val = Absent THEN <<>> ELSE name :> val

API_URI == <<"h">>

TokenChoices == {Absent, PyStr(<<>>), PyStr(<<"T">>)}

UsernameChoices == {Absent, PyStr(<<"U">>)}

PasswordChoices == {Absent, PyStr(<<"P">>)}

HttpMethodChoices == {Absent, PyStr(GET), PyStr(POST), PyStr(<<"P","U","T">>)}

LanguageChoices == {Absent, PyStr(<<"r","u">>)}

PrefixDefaultChoices == {Absent, PyStr(<<"/","a","p","i","/">>)}

CurrencyChoices == {Absent, PyInt(643)}

\* Constructor arguments tried: every combination of the credentials with
\* the http_method; then, for one client of each authentication mode, the
\* default language and the prefix_default override; then a default currency
CtorKwargs ==
  { Opt("token", tk) @@ Opt("username", un) @@ Opt("password", pw)
    @@ Opt("http_method", hm) :
      tk \in TokenChoices, un \in UsernameChoices, pw \in PasswordChoices,
      hm \in HttpMethodChoices }
  \cup
  { Opt("token", IF byToken THEN PyStr(<<"T">>) ELSE Absent)
    @@ Opt("username", IF byToken THEN Absent ELSE PyStr(<<"U">>))
    @@ Opt("password", IF byToken THEN Absent ELSE PyStr(<<"P">>))
    @@ Opt("http_method", PyStr(GET))
    @@ Opt("language", lg) @@ Opt("prefix_default", pd) :
      byToken \in BOOLEAN,
      lg \in LanguageChoices, pd \in PrefixDefaultChoices }
  \cup
  { Opt("token", PyStr(<<"T">>)) @@ Opt("http_method", hm)
    @@ Opt("currency", cu) :
      hm \in {Absent, PyStr(POST)}, cu \in CurrencyChoices \ {Absent} }

\* Optional parameters a caller passes to an action method (caller case)
ExtraNone == <<>>

ExtraCredentials ==
  << <<<<"u","s","e","r","_","n","a","m","e">>, PyStr(<<"c","u">>)>>,
     <<<<"p","a","s","s","w","o","r","d">>, PyStr(<<"c","p">>)>> >>

ExtraToken ==
  << <<<<"t","o","k","e","n">>, PyStr(<<"c","t">>)>>,
     <<<<"l","a","n","g","u","a","g","e">>, PyStr(<<"e","n">>)>> >>

ExtraNested ==
  << <<<<"j","s","o","n","_","p","a","r","a","m","s">>, PyDict(<<<<<<"c","l","i","e","n","t","_","i","d">>, PyStr(<<"x">>)>>>>)>> >>

ExtraUnderscore == << << <<"_">>, PyStr(<<"v">>)>> >>

ExtraKwargs ==
  {ExtraNone, ExtraCredentials, ExtraToken, ExtraNested, ExtraUnderscore}

\* Optional parameters passed to order registration: jsonParams as a dict,
\* as an empty dict, as a string; a currency of the caller's
ExtraJsonParamsDict ==
  << <<K_jsonParams, PyDict(<< <<<<"e","m","a","i","l">>, PyStr(<<"x">>)>> >>)>> >>

ExtraJsonParamsEmpty == << <<K_jsonParams, PyDict(<<>>)>> >>

ExtraJsonParamsStr == << <<K_jsonParams, PyStr(<<"x">>)>> >>

ExtraCurrency == << <<K_currency, PyInt(978)>> >>

RegisterKwargs ==
  {ExtraNone, ExtraNested, ExtraJsonParamsDict, ExtraJsonParamsEmpty,
   ExtraJsonParamsStr, ExtraCurrency}

\* Decoded response bodies
\* {"errorCode": "5", "errorMessage": "Order not found"}
BodyOrderNotFound ==
  PyDict(<<<<<<"e","r","r","o","r","C","o","d","e">>, PyStr(<<"5">>)>>, <<<<"e","r","r","o","r","M","e","s","s","a","g","e">>, PyStr(<<"O","r","d","e","r"," ","n","o","t"," ","f","o","u","n","d">>)>>>>)

\* {"errorCode": 0}
BodyZero ==
  PyDict(<<<<<<"e","r","r","o","r","C","o","d","e">>, PyInt(0)>>>>)

\* {"errorCode": 0, "orderId": "abc"}
BodyZeroOrder ==
  PyDict(<<<<<<"e","r","r","o","r","C","o","d","e">>, PyInt(0)>>, <<<<"o","r","d","e","r","I","d">>, PyStr(<<"a","b","c">>)>>>>)

\* {"orderId": "abc", "cardAuthInfo": {"cardholderName": "x"}, "merchantOrderParams": [{"paramName": "n"}]}
BodyNested ==
  PyDict(<<<<<<"o","r","d","e","r","I","d">>, PyStr(<<"a","b","c">>)>>, <<<<"c","a","r","d","A","u","t","h","I","n","f","o">>, PyDict(<<<<<<"c","a","r","d","h","o","l","d","e","r","N","a","m","e">>, PyStr(<<"x">>)>>>>)>>, <<<<"m","e","r","c","h","a","n","t","O","r","d","e","r","P","a","r","a","m","s">>, PyList(<<PyDict(<<<<<<"p","a","r","a","m","N","a","m","e">>, PyStr(<<"n">>)>>>>)>>)>>>>)

\* {"errorCode": 5, "errorMessage": "bad"}
BodyIntCode ==
  PyDict(<<<<<<"e","r","r","o","r","C","o","d","e">>, PyInt(5)>>, <<<<"e","r","r","o","r","M","e","s","s","a","g","e">>, PyStr(<<"b","a","d">>)>>>>)

\* {"errorCode": 5, "errorMessage": ""}
BodyEmptyMessage ==
  PyDict(<<<<<<"e","r","r","o","r","C","o","d","e">>, PyInt(5)>>, <<<<"e","r","r","o","r","M","e","s","s","a","g","e">>, PyStr(<<>>)>>>>)

\* {"errorCode": 5, "errorMessage": "", "ErrorMessage": "E"}
BodyEmptyMessageOther ==
  PyDict(<<<<<<"e","r","r","o","r","C","o","d","e">>, PyInt(5)>>, <<<<"e","r","r","o","r","M","e","s","s","a","g","e">>, PyStr(<<>>)>>, <<<<"E","r","r","o","r","M","e","s","s","a","g","e">>, PyStr(<<"E">>)>>>>)

\* {"errorCode": 7}
BodyCodeOnly ==
  PyDict(<<<<<<"e","r","r","o","r","C","o","d","e">>, PyInt(7)>>>>)

\* {"errorCode": "05", "errorMessage": "m"}
BodyPaddedCode ==
  PyDict(<<<<<<"e","r","r","o","r","C","o","d","e">>, PyStr(<<"0","5">>)>>, <<<<"e","r","r","o","r","M","e","s","s","a","g","e">>, PyStr(<<"m">>)>>>>)

\* {"errorCode": "0", "errorMessage": "ok"}
BodyZeroString ==
  PyDict(<<<<<<"e","r","r","o","r","C","o","d","e">>, PyStr(<<"0">>)>>, <<<<"e","r","r","o","r","M","e","s","s","a","g","e">>, PyStr(<<"o","k">>)>>>>)

\* {"errorCode": "x1", "errorMessage": "m"}
BodyWordCode ==
  PyDict(<<<<<<"e","r","r","o","r","C","o","d","e">>, PyStr(<<"x","1">>)>>, <<<<"e","r","r","o","r","M","e","s","s","a","g","e">>, PyStr(<<"m">>)>>>>)

\* {"errorCode": 0, "ErrorMessage": "Declined"}
BodyZeroCapital ==
  PyDict(<<<<<<"e","r","r","o","r","C","o","d","e">>, PyInt(0)>>, <<<<"E","r","r","o","r","M","e","s","s","a","g","e">>, PyStr(<<"D","e","c","l","i","n","e","d">>)>>>>)

\* {"ErrorMessage": "Declined"}
BodyCapital ==
  PyDict(<<<<<<"E","r","r","o","r","M","e","s","s","a","g","e">>, PyStr(<<"D","e","c","l","i","n","e","d">>)>>>>)

\* {"error": {"code": "10", "message": "m", "description": "d"}}
BodyErrorObject ==
  PyDict(<<<<<<"e","r","r","o","r">>, PyDict(<<<<<<"c","o","d","e">>, PyStr(<<"1","0">>)>>, <<<<"m","e","s","s","a","g","e">>, PyStr(<<"m">>)>>, <<<<"d","e","s","c","r","i","p","t","i","o","n">>, PyStr(<<"d">>)>>>>)>>>>)

\* {"error": {"code": 10, "description": "d"}}
BodyErrorDescription ==
  PyDict(<<<<<<"e","r","r","o","r">>, PyDict(<<<<<<"c","o","d","e">>, PyInt(10)>>, <<<<"d","e","s","c","r","i","p","t","i","o","n">>, PyStr(<<"d">>)>>>>)>>>>)

\* {"errorCode": 0, "error": {"code": 7}}
BodyZeroErrorObject ==
  PyDict(<<<<<<"e","r","r","o","r","C","o","d","e">>, PyInt(0)>>, <<<<"e","r","r","o","r">>, PyDict(<<<<<<"c","o","d","e">>, PyInt(7)>>>>)>>>>)

\* {"error": "oops"}
BodyErrorString ==
  PyDict(<<<<<<"e","r","r","o","r">>, PyStr(<<"o","o","p","s">>)>>>>)

\* [1]
BodyList ==
  PyList(<<PyInt(1)>>)

Docs ==
  {BodyOrderNotFound,
   BodyZero,
   BodyZeroOrder,
   BodyNested,
   BodyIntCode,
   BodyEmptyMessage,
   BodyEmptyMessageOther,
   BodyCodeOnly,
   BodyPaddedCode,
   BodyZeroString,
   BodyWordCode,
   BodyZeroCapital,
   BodyCapital,
   BodyErrorObject,
   BodyErrorDescription,
   BodyZeroErrorObject,
   BodyErrorString,
   BodyList}

\* Raw bodies: the ones json.loads decodes, and one it rejects
Bodies == {[valid |-> TRUE, doc |-> d] : d \in Docs}
          \cup {[valid |-> FALSE, doc |-> PyNone]}

\* Bodies sent along with a status other than 200
FailureBodies ==
  {[valid |-> TRUE, doc |-> BodyOrderNotFound],
   [valid |-> TRUE, doc |-> BodyZeroOrder],
   [valid |-> FALSE, doc |-> PyNone]}

FailureStatuses == {404, 500}

\* What the injected session does with a request: raise, or answer
Transports ==
  {[kind |-> "raise", exc |-> e, status |-> 0,
    body |-> [valid |-> FALSE, doc |-> PyNone]] :
      e \in {"ClientConnectorError", "TimeoutError"}}
  \cup {[kind |-> "response", exc |-> "", status |-> HTTP_OK, body |-> b] :
          b \in Bodies}
  \cup {[kind |-> "response", exc |-> "", status |-> s, body |-> b] :
          s \in FailureStatuses, b \in FailureBodies}

\* Paths passed to execute directly
DirectActions ==
  {PATH_deposit_do,
   API_PREFIX_DEFAULT \o PATH_deposit_do,
   <<"/">> \o PATH_recurrentPayment}

\* ------------------------------------------------------------------------
\* State
\* ------------------------------------------------------------------------
VARIABLES
  ctor,     \* the last constructor call: its kwargs and what it raised
  client,   \* the constructed SberbankClient, once there is one
  call,     \* the last action method called: name, path, parameters, transport
  res,      \* what that call did: request issued, raised/returned, log line
  m,        \* key translation: the caller-case mapping under translation
  gw,       \* key translation: _snake_to_camel(m)
  back,     \* key translation: _camel_to_snake(gw)
  twinLog   \* the line logged by the same call on a client that differs
            \* from `client` in its stored credentials only

vars == <<ctor, client, call, res, m, gw, back, twinLog>>

clientVars == <<ctor, client, call, res, twinLog>>

keyVars == <<m, gw, back>>

NoCtor == [called |-> FALSE]

NoClient == [made |-> FALSE]

NoCall ==
  [name |-> "none", action |-> <<>>, kwargs |-> <<>>, transport |-> <<>>]

NoResult == [done |-> FALSE]

NotYet == [t |-> "pending", v |-> 0]

IndexErrorRaised == [t |-> "raised", v |-> 0]

\* ------------------------------------------------------------------------
\* Client operations
\* ------------------------------------------------------------------------
\* SberbankClient(API_URI, session, **kwargs)
Construct(kwargs) ==
  /\ ~client.made
  /\ LET r == InitClient(API_URI, kwargs)
     IN /\ ctor' = [called |-> TRUE, kwargs |-> kwargs, raised |-> r.raised]
        /\ client' = IF r.raised = ""
                     THEN [made |-> TRUE, self |-> r.self]
                     ELSE client
  /\ UNCHANGED <<call, res, twinLog, keyVars>>

\* The client built from the same arguments except for other credentials:
\* the same attributes, each stored credential replaced by another string
Twin(self) ==
  [a \in DOMAIN self |->
     IF a \in {"token", "username", "password"}
     THEN PyStr(<<"X">> \o self[a].v)
     ELSE self[a]]

\* The state after a call: `run` gives, for the client and for its twin,
\* what the call did
Record(name, action, kwargs, transport, run) ==
  /\ call = NoCall
  /\ call' = [name |-> name, action |-> action, kwargs |-> kwargs,
              transport |-> transport]
  /\ res' = [done |-> TRUE] @@ run[client.self]
  /\ twinLog' = run[Twin(client.self)].log
  /\ UNCHANGED <<ctor, client, keyVars>>

\* An action method: `early` is the exception it raises before it reaches
\* `return await self.execute(action, **kwargs)`, "" when it reaches it.
\* The same call is made on the twin client and its log line kept.
\* The state keeps one call at a time: the client holds nothing of a call
\* once it has returned or raised (Finish).
Perform(name, action, kwargs, transport, early) ==
  Record(name, action, kwargs, transport,
         [c \in {client.self, Twin(client.self)} |->
            IF early # "" THEN RaisedBeforeRequest(early)
            ELSE Execute(c, action, kwargs, transport)])

\* An action method that ends in `return await self.execute(action, **kwargs)`
Invoke(name, action, kwargs, transport) ==
  Perform(name, action, kwargs, transport, "")

\* Values of the required parameters of the action methods
ORDER_NUMBER == PyStr(<<"1">>)

ORDER_ID == PyStr(<<"o">>)

AMOUNT == PyInt(100)

MERCHANT == PyStr(<<"m">>)

PAYMENT_TOKEN == PyStr(<<"p","t">>)

BINDING_ID == PyStr(<<"b">>)

IP == PyStr(<<"i","p">>)

MD_ORDER == PyStr(<<"m","d">>)

BACK_URL == PyStr(<<"b","u">>)

\* execute called directly
ExecuteDirect(action, kwargs, transport) ==
  /\ client.made
  /\ Invoke("execute", action, kwargs, transport)

Deposit(kwargs, transport) ==
  /\ client.made
  /\ Invoke("deposit",
            client.self.prefix_default.v \o PATH_deposit_do,
            DSet(DSet(kwargs, K_orderId, ORDER_ID), K_amount, AMOUNT),
            transport)

PayWithApplepay(kwargs, transport) ==
  /\ client.made
  /\ Invoke("pay_with_applepay",
            client.self.prefix_apple.v \o PATH_payment_do,
            DSet(DSet(DSet(kwargs, K_orderNumber, ORDER_NUMBER),
                      K_merchant, MERCHANT),
                 K_paymentToken, PAYMENT_TOKEN),
            transport)

PayWithApplepayRecurrent(kwargs, transport) ==
  /\ client.made
  /\ Invoke("pay_with_applepay_recurrent",
            PATH_recurrentPayment,
            DSet(DSet(DSet(kwargs, K_orderNumber, ORDER_NUMBER),
                      K_amount, AMOUNT),
                 K_binding_id, BINDING_ID),
            transport)

PayWithSamsungpay(kwargs, transport) ==
  /\ client.made
  /\ Invoke("pay_with_samsungpay",
            client.self.prefix_samsung.v \o PATH_payment_do,
            DSet(DSet(DSet(DSet(kwargs, K_orderNumber, ORDER_NUMBER),
                           K_merchant, MERCHANT),
                      K_payment_token, PAYMENT_TOKEN),
                 K_ip, IP),
            transport)

PayWithSamsungpayWeb(transport) ==
  /\ client.made
  /\ Invoke("pay_with_samsungpay_web",
            PATH_samsungWeb,
            << <<K_mdOrder, MD_ORDER>>,
               <<K_onFailedPaymentBackUrl, BACK_URL>> >>,
            transport)

PayWithGooglepay(kwargs, transport) ==
  /\ client.made
  /\ Invoke("pay_with_googlepay",
            client.self.prefix_google.v \o PATH_payment_do,
            DSet(DSet(DSet(DSet(kwargs, K_orderNumber, ORDER_NUMBER),
                           K_merchant, MERCHANT),
                      K_paymentToken, PAYMENT_TOKEN),
                 K_amount, AMOUNT),
            transport)

RETURN_URL == PyStr(<<"r">>)

\* do_register_order: kwargs once the required parameters and the default
\* currency are put in
RegisterParams(self, kwargs) ==
  LET required == DSet(DSet(DSet(kwargs, K_orderNumber, ORDER_NUMBER),
                            K_amount, AMOUNT),
                       K_returnUrl, RETURN_URL)
  IN IF ~Truthy(DGet(required, K_currency)) /\ Truthy(self.currency)
     THEN DSet(required, K_currency, self.currency)
     ELSE required

\* do_register_order: the test on jsonParams that raises TypeError
JsonParamsRaises(kwargs) ==
  /\ Truthy(DGet(kwargs, K_jsonParams))
  /\ IsDict(DGet(kwargs, K_jsonParams))

DoRegisterOrder(name, method, kwargs, transport) ==
  LET params == RegisterParams(client.self, kwargs)
  IN Perform(name, method, params, transport,
             IF JsonParamsRaises(params) THEN "TypeError" ELSE "")

RegisterOrder(kwargs, transport) ==
  /\ client.made
  /\ DoRegisterOrder("register_order",
                     client.self.prefix_default.v \o PATH_register_do,
                     kwargs, transport)

RegisterOrderPreauth(kwargs, transport) ==
  /\ client.made
  /\ DoRegisterOrder("register_order_preauth",
                     client.self.prefix_default.v \o PATH_registerPreAuth_do,
                     kwargs, transport)

\* The caller has taken the result or the exception of the last call
Finish ==
  /\ call # NoCall
  /\ call' = NoCall
  /\ res' = NoResult
  /\ twinLog' = NoLog
  /\ UNCHANGED <<ctor, client, keyVars>>

Init ==
  /\ ctor = NoCtor
  /\ client = NoClient
  /\ call = NoCall
  /\ res = NoResult
  /\ twinLog = NoLog
  /\ m = <<>>
  /\ gw = NotYet
  /\ back = NotYet

Next ==
  \/ \E kwargs \in CtorKwargs : Construct(kwargs)
  \/ \E a \in DirectActions, kw \in ExtraKwargs, tr \in Transports :
        ExecuteDirect(a, kw, tr)
  \/ \E kw \in ExtraKwargs, tr \in Transports : Deposit(kw, tr)
  \/ \E kw \in ExtraKwargs, tr \in Transports : PayWithApplepay(kw, tr)
  \/ \E kw \in ExtraKwargs, tr \in Transports : PayWithApplepayRecurrent(kw, tr)
  \/ \E kw \in ExtraKwargs, tr \in Transports : PayWithSamsungpay(kw, tr)
  \/ \E tr \in Transports : PayWithSamsungpayWeb(tr)
  \/ \E kw \in ExtraKwargs, tr \in Transports : PayWithGooglepay(kw, tr)
  \/ \E kw \in RegisterKwargs, tr \in Transports : RegisterOrder(kw, tr)
  \/ \E kw \in RegisterKwargs, tr \in Transports : RegisterOrderPreauth(kw, tr)
  \/ Finish

Spec == Init /\ [][Next]_vars

\* ------------------------------------------------------------------------
\* Vocabulary of the properties
\* ------------------------------------------------------------------------
\* The exception classes of src/exceptions.py
LibraryExceptions ==
  {"ActionException", "BadRequestException", "BadResponseException",
   "NetworkException", "InvalidRequestArguments"}

\* What the caller asked of the constructor
GaveToken == ctor.called /\ Truthy(KwGet(ctor.kwargs, "token", PyNone))

GaveUserPass ==
  /\ ctor.called
  /\ Truthy(KwGet(ctor.kwargs, "username", PyNone))
  /\ Truthy(KwGet(ctor.kwargs, "password", PyNone))

TokenMode == client.made /\ HasAttr(client.self, "token")

UserPassMode ==
  /\ client.made
  /\ HasAttr(client.self, "username")
  /\ HasAttr(client.self, "password")

\* A call has been made and its request reached the transport
Sent == res.done /\ res.request.sent

\* The last call's path is classified as classic / as wallet
Classic == res.done /\ IsRest(client.self, call.action)

Wallet == res.done /\ ~IsRest(client.self, call.action)

Body == res.request.data

\* The caller passed a parameter that reaches the wire under name k, and
\* the body carries the caller's value under k
CallerSupplies(k) ==
  \E i \in 1..Len(call.kwargs) : SnakeToCamelKey(call.kwargs[i][1]) = k

FromCaller(k) ==
  \E i \in 1..Len(call.kwargs) :
     /\ SnakeToCamelKey(call.kwargs[i][1]) = k
     /\ DGet(Body.fields, k) = call.kwargs[i][2]

\* Field k of the body is there only if the caller put it there
OnlyFromCaller(k) ==
  /\ DHas(Body.fields, k) <=> CallerSupplies(k)
  /\ DHas(Body.fields, k) => FromCaller(k)

\* The credentials the client stores
StoredCredentials ==
  {client.self[a] : a \in DOMAIN client.self
                         \cap {"token", "username", "password"}}

\* The transport answered the last call with this status
Answered == Sent /\ call.transport.kind = "response"

Answered200 == Answered /\ call.transport.status = 200

\* The transport answered 200 with a body that decodes to a mapping
DecodedMapping ==
  /\ Answered200
  /\ call.transport.body.valid
  /\ IsDict(call.transport.body.doc)

Response == call.transport.body.doc.v

\* ------------------------------------------------------------------------
\* C1
\* ------------------------------------------------------------------------
\* C1: constructing with both a token and a username+password pair, or with
\* neither a token nor a complete pair, fails with the library's
\* configuration error (an exception class of src/exceptions.py); every
\* constructed client has exactly one authentication mode.
C1_ConfigurationError ==
  /\ (ctor.called /\ GaveToken /\ GaveUserPass)
        => ctor.raised \in LibraryExceptions
  /\ (ctor.called /\ ~GaveToken /\ ~GaveUserPass)
        => ctor.raised \in LibraryExceptions
  /\ client.made => (TokenMode /\ ~HasAttr(client.self, "username")
                               /\ ~HasAttr(client.self, "password"))
                    \/ (UserPassMode /\ ~HasAttr(client.self, "token"))

\* ------------------------------------------------------------------------
\* C2
\* ------------------------------------------------------------------------
\* C2: a request issued for a classic path has a form-url-encoded body with
\* Content-Type application/x-www-form-urlencoded; a token client puts its
\* token under `token` and `userName`/`password` are there only as the caller
\* passed them; a username+password client puts both under `userName` and
\* `password` and `token` is there only as the caller passed it.
C2_ClassicAuthInBody ==
  (Sent /\ Classic) =>
     /\ Body.enc = "urlencode"
     /\ res.request.headers.ContentType = FORM_URLENCODED
     /\ TokenMode =>
          /\ DGet(Body.fields, K_token) = client.self.token
          /\ OnlyFromCaller(K_userName)
          /\ OnlyFromCaller(K_password)
     /\ ~TokenMode =>
          /\ DGet(Body.fields, K_userName) = client.self.username
          /\ DGet(Body.fields, K_password) = client.self.password
          /\ OnlyFromCaller(K_token)

\* A token client sent a classic request whose caller passed user_name and
\* password parameters of its own
C2_Witness ==
  /\ Sent /\ Classic /\ TokenMode
  /\ call.kwargs # <<>> /\ CallerSupplies(K_userName)
  /\ DGet(Body.fields, K_token) = PyStr(<<"T">>)

\* ------------------------------------------------------------------------
\* C3
\* ------------------------------------------------------------------------
\* C3: a request issued for a wallet path has verb POST, Content-Type
\* application/json and a JSON body, whatever http_method the client was
\* built with, and no field of the body holds a stored credential: token,
\* userName and password are there only as the caller passed them.
C3_WalletPostJson ==
  (Sent /\ Wallet) =>
     /\ res.request.method = PyStr(POST)
     /\ res.request.headers.ContentType = APPLICATION_JSON
     /\ Body.enc = "json"
     /\ \A i \in 1..Len(Body.fields) :
           Body.fields[i][2] \notin StoredCredentials
     /\ OnlyFromCaller(K_token)
     /\ OnlyFromCaller(K_userName)
     /\ OnlyFromCaller(K_password)

\* A client built with http_method GET sent the Apple Pay payment request
C3_Witness ==
  /\ Sent /\ Wallet
  /\ call.name = "pay_with_applepay"
  /\ client.self.http_method = PyStr(GET)
  /\ res.request.method = PyStr(POST)

\* ------------------------------------------------------------------------
\* C4
\* ------------------------------------------------------------------------
\* errorCode of the response is a non-zero integer, or a string of digits
\* that denotes one
NonZeroErrorCode ==
  LET c == DGet(Response, K_errorCode)
  IN \/ c.t = "int" /\ c.v # 0
     \/ c.t = "str" /\ IsDigitStr(c.v) /\ IntOfStr(c.v) # 0

\* errorCode of the response as an integer
ErrorCodeAsInt ==
  LET c == DGet(Response, K_errorCode)
  IN IF c.t = "int" THEN c ELSE PyInt(IntOfStr(c.v))

NoErrorFields ==
  \A k \in {K_errorCode, K_errorMessage, K_ErrorMessage, K_error} :
     ~DHas(Response, k)

\* r is d with its keys in caller case: every key translated, mappings
\* nested as values translated the same way, other values unchanged
RECURSIVE InCallerCase(_, _)
InCallerCase(r, d) ==
  /\ DKeys(r) = {CamelToSnakeKey(d[i][1]) : i \in 1..Len(d)}
  /\ \A i \in 1..Len(d) :
        LET out == DGet(r, CamelToSnakeKey(d[i][1]))
        IN IF IsDict(d[i][2])
           THEN IsDict(out) /\ InCallerCase(out.v, d[i][2].v)
           ELSE out = d[i][2]

\* C5: status 200 and a response with errorCode 0, or with no error fields
\* at all, make execute raise nothing and return the response in caller
\* case; {"errorCode": 0, "orderId": "abc"} comes back as
\* {"error_code": 0, "order_id": "abc"}.
C5_SuccessReturn ==
  (DecodedMapping
   /\ (DGet(Response, K_errorCode) = PyInt(ACTION_SUCCESS) \/ NoErrorFields))
  => /\ res.raised = ""
     /\ IsDict(res.returned)
     /\ InCallerCase(res.returned.v, Response)
     /\ call.transport.body.doc = BodyZeroOrder =>
          res.returned.v = << <<<<"e","r","r","o","r","_","c","o","d","e">>, PyInt(0)>>,
                              <<<<"o","r","d","e","r","_","i","d">>, PyStr(<<"a","b","c">>)>> >>

\* ------------------------------------------------------------------------
\* C6
\* ------------------------------------------------------------------------
\* C6: a status other than 200 makes execute raise BadResponseError whose
\* message carries the status code and whose code is unset, whatever the
\* body: the body is not decoded, no ActionError is raised, nothing returned.
C6_BadResponse ==
  (Answered /\ call.transport.status # 200) =>
     /\ res.raised = "BadResponseException"
     /\ res.message = PyStr(HTTP_CODE_MSG \o StrOfInt(call.transport.status))
     /\ call.transport.status = 500 =>
          SubSeq(res.message.v, Len(res.message.v) - 2, Len(res.message.v))
            = <<"5","0","0">>
     /\ res.code = PyNone
     /\ ~res.decoded
     /\ res.returned = PyNone

\* Status 500 arrived with a body that would decode to an error response
C6_Witness ==
  /\ Answered
  /\ call.transport.status = 500
  /\ call.transport.body.doc = BodyOrderNotFound
  /\ res.raised = "BadResponseException"

\* ------------------------------------------------------------------------
\* C7
\* ------------------------------------------------------------------------
\* C7: a connection failure of the transport reaches the caller as
\* NetworkError, never as the transport's exception; NetworkError is raised
\* for nothing else, and every other failure leaves execute as it was
\* raised (another transport exception, BadResponseError, ActionError, the
\* JSON decode failure).
C7_NetworkError ==
  Sent =>
    /\ (call.transport.kind = "raise"
        /\ call.transport.exc = "ClientConnectorError")
         => res.raised = "NetworkException"
    /\ res.raised # "ClientConnectorError"
    /\ res.raised = "NetworkException"
         => (call.transport.kind = "raise"
             /\ call.transport.exc = "ClientConnectorError")
    /\ (call.transport.kind = "raise"
        /\ call.transport.exc # "ClientConnectorError")
         => res.raised = call.transport.exc
    /\ (Answered /\ call.transport.status # 200)
         => res.raised = "BadResponseException"
    /\ (Answered200 /\ ~call.transport.body.valid)
         => res.raised = "JSONDecodeError"
    /\ (DecodedMapping /\ NonZeroErrorCode)
         => res.raised \in {"ActionException", "AttributeError"}

\* The transport raised its connection failure and the caller got
\* NetworkError
C7_Witness ==
  /\ Sent
  /\ call.transport.kind = "raise"
  /\ call.transport.exc = "ClientConnectorError"
  /\ res.raised = "NetworkException"

\* ------------------------------------------------------------------------
\* C9
\* ------------------------------------------------------------------------
\* C9: an http_method outside GET and POST makes construction fail with the
\* request error; for every constructed client, with or without an
\* http_method, execute on a classic path reaches the transport with verb
\* GET or POST, the http_method itself when one was given.
C9_VerbOptional ==
  /\ (ctor.called /\ ctor.raised = ""
      /\ Truthy(KwGet(ctor.kwargs, "http_method", PyNone))
      /\ ctor.kwargs["http_method"] \notin {PyStr(GET), PyStr(POST)})
       => FALSE
  /\ (res.done /\ Classic /\ ~SnakeToCamelRaises(call.kwargs)) =>
       /\ res.request.sent
       /\ res.request.method \in {PyStr(GET), PyStr(POST)}
       /\ HasAttr(client.self, "http_method")
            => res.request.method = client.self.http_method

\* ------------------------------------------------------------------------
\* C10
\* ------------------------------------------------------------------------
\* The path of the request: the url without the base URI
RequestPath == SubSeq(res.request.url, Len(API_URI) + 1, Len(res.request.url))

\* C10: pay_with_applepay_recurrent and pay_with_samsungpay_web send their
\* request to a path outside the default REST, Apple, Google and Samsung
\* prefixes, as a wallet request: POST, JSON body, no stored credential.
C10_FixedPathsAreWallet ==
  (Sent /\ call.name \in {"pay_with_applepay_recurrent",
                          "pay_with_samsungpay_web"}) =>
     /\ \A p \in {"prefix_default", "prefix_apple",
                  "prefix_google", "prefix_samsung"} :
           Find(RequestPath, client.self[p].v) = -1
     /\ res.request.method = PyStr(POST)
     /\ Body.enc = "json"
     /\ res.request.headers.ContentType = APPLICATION_JSON
     /\ \A i \in 1..Len(Body.fields) :
           Body.fields[i][2] \notin StoredCredentials

\* ------------------------------------------------------------------------
\* Key translation on its own: a mapping is translated to gateway case and
\* back
\* ------------------------------------------------------------------------
\* Longest key tried
MaxKeyLen == 3

\* One lower-case letter, one upper-case letter, one digit, the separator
KeyAlphabet == {"a", "B", "1", "_"}

KeysUpTo(n) == UNION {[1..l -> KeyAlphabet] : l \in 1..n}

\* Mappings tried: one key, two keys, one key holding a nested mapping
KeyMappings ==
  { << <<k, PyStr(<<"v">>)>> >> : k \in KeysUpTo(MaxKeyLen) }
  \cup UNION { { << <<k1, PyInt(1)>>, <<k2, PyInt(2)>> >> :
                    k2 \in KeysUpTo(MaxKeyLen - 1) \ {k1} } :
                  k1 \in KeysUpTo(MaxKeyLen) }
  \cup { << <<k1, PyDict(<< <<k2, PyList(<<PyInt(1)>>)>> >>)>> >> :
           k1 \in KeysUpTo(MaxKeyLen), k2 \in KeysUpTo(MaxKeyLen - 1) }

InitKeys ==
  /\ ctor = NoCtor
  /\ client = NoClient
  /\ call = NoCall
  /\ res = NoResult
  /\ twinLog = NoLog
  /\ m \in KeyMappings
  /\ gw = NotYet
  /\ back = NotYet

\* gw = self._snake_to_camel(m)
ToGatewayCase ==
  /\ gw = NotYet
  /\ gw' = IF SnakeToCamelRaises(m) THEN IndexErrorRaised
           ELSE PyDict(SnakeToCamel(m))
  /\ UNCHANGED <<m, back, clientVars>>

\* back = self._camel_to_snake(gw)
ToCallerCase ==
  /\ IsDict(gw)
  /\ back = NotYet
  /\ back' = PyDict(CamelToSnake(gw.v))
  /\ UNCHANGED <<m, gw, clientVars>>

NextKeys == ToGatewayCase \/ ToCallerCase

SpecKeys == InitKeys /\ [][NextKeys]_vars

\* ------------------------------------------------------------------------
\* C8
\* ------------------------------------------------------------------------
\* No two distinct keys of the mapping, or of a mapping nested in it, have
\* the same gateway-case key
RECURSIVE NoCollision(_)
NoCollision(d) ==
  /\ \A i, j \in 1..Len(d) :
        (d[i][1] # d[j][1])
          => SnakeToCamelKey(d[i][1]) # SnakeToCamelKey(d[j][1])
  /\ \A i \in 1..Len(d) : IsDict(d[i][2]) => NoCollision(d[i][2].v)

\* The translation to gateway case has been applied to m
Translated == gw # NotYet

\* C8 as claimed: for every mapping whose keys use only letters, digits and
\* `_` and do not collide, translating to gateway case and back gives the
\* mapping again.
C8_Original ==
  (back # NotYet /\ NoCollision(m)) => DictEq(back.v, m)

\* A key in caller convention: no upper-case letter; and, when it has a
\* separator, it neither starts nor ends with one, has no two separators in
\* a row, no digit right after a separator and no letter right after a digit
CallerKey(k) ==
  /\ \A i \in 1..Len(k) : ~IsUpperChar(k[i])
  /\ Find(k, <<"_">>) # -1 =>
       /\ k[1] # "_"
       /\ k[Len(k)] # "_"
       /\ \A i \in 1..(Len(k) - 1) :
             /\ k[i] = "_" => (k[i+1] # "_" /\ ~IsDigitChar(k[i+1]))
             /\ IsDigitChar(k[i]) => ~IsLetterChar(k[i+1])

RECURSIVE CallerKeys(_)
CallerKeys(d) ==
  \A i \in 1..Len(d) :
     /\ CallerKey(d[i][1])
     /\ IsDict(d[i][2]) => CallerKeys(d[i][2].v)

\* C8 amended: for every mapping (nested mappings included) whose keys are
\* in caller convention -- lower-case letters, digits and `_`, where a key
\* with a separator does not start or end with it, has no two separators in
\* a row, no digit right after a separator and no letter right after a
\* digit -- and do not collide, translating to gateway case and back gives
\* the mapping again.
C8_RoundTrip ==
  (Translated /\ CallerKeys(m) /\ NoCollision(m)) =>
     /\ IsDict(gw)
     /\ back # NotYet => DictEq(back.v, m)

\* A mapping with the key a_a holding a nested mapping made the round trip
C8_Witness ==
  /\ back # NotYet
  /\ CallerKeys(m) /\ NoCollision(m)
  /\ Len(m) = 1 /\ m[1][1] = <<"a", "_", "a">> /\ IsDict(m[1][2])
  /\ gw.v[1][1] = <<"a", "A">>
  /\ DictEq(back.v, m)

\* ------------------------------------------------------------------------
\* C11
\* ------------------------------------------------------------------------
\* response.get('error', {}) when it is a mapping, the empty mapping otherwise
ErrorMapping ==
  IF IsDict(ErrorField(Response)) THEN ErrorField(Response).v ELSE <<>>

\* The code by presence: errorCode when the response carries it, else
\* ErrorMessage when carried, else error.code when carried, else 0
CodeByPresence ==
  IF DHas(Response, K_errorCode) THEN DGet(Response, K_errorCode)
  ELSE IF DHas(Response, K_ErrorMessage) THEN DGet(Response, K_ErrorMessage)
  ELSE IF DHas(ErrorMapping, K_code) THEN DGet(ErrorMapping, K_code)
  ELSE PyInt(0)

\* The message by presence: the first carried of errorMessage, ErrorMessage,
\* error.message, error.description, else the unknown-error text
MessageByPresence ==
  IF DHas(Response, K_errorMessage) THEN DGet(Response, K_errorMessage)
  ELSE IF DHas(Response, K_ErrorMessage) THEN DGet(Response, K_ErrorMessage)
  ELSE IF DHas(ErrorMapping, K_message) THEN DGet(ErrorMapping, K_message)
  ELSE IF DHas(ErrorMapping, K_description)
  THEN DGet(ErrorMapping, K_description)
  ELSE PyStr(UNKNOWN_ERROR)

\* A code as the integer it denotes, when it is a string of digits
AsInteger(c) ==
  IF c.t = "str" /\ IsDigitStr(c.v) THEN PyInt(IntOfStr(c.v)) ELSE c

\* C11: in the error check of a decoded response the code is errorCode
\* whenever the response carries errorCode, ErrorMessage only when errorCode
\* is absent, error.code only when both are absent; the message is the first
\* present of errorMessage, ErrorMessage, error.message, error.description,
\* else the unknown-error text; a selected code of 0 means no error, so a
\* response carrying errorCode 0 is never turned into an ActionError.
C11_ErrorFieldPriority ==
  (DecodedMapping /\ IsDict(ErrorField(Response))) =>
     /\ AsInteger(CodeByPresence) = PyInt(0) => res.raised = ""
     /\ AsInteger(CodeByPresence) # PyInt(0) =>
          /\ res.raised = "ActionException"
          /\ res.code = AsInteger(CodeByPresence)
          /\ res.message = MessageByPresence

\* ------------------------------------------------------------------------
\* C12
\* ------------------------------------------------------------------------
\* The last call is an order registration whose caller passed jsonParams
RegisteredWithJsonParams ==
  /\ res.done
  /\ call.name \in {"register_order", "register_order_preauth"}
  /\ DHas(call.kwargs, K_jsonParams)

\* C12: order registration checks the type of jsonParams: with a dict the
\* call passes the check and goes on to execute, which issues one request;
\* with a jsonParams that is not a dict the call fails with TypeError before
\* any request is issued.
C12_JsonParamsTypeCheck ==
  (RegisteredWithJsonParams /\ HasAttr(client.self, "http_method")) =>
     IF IsDict(DGet(call.kwargs, K_jsonParams))
     THEN res.raised # "TypeError" /\ res.request.sent
     ELSE res.raised = "TypeError" /\ ~res.request.sent

\* ------------------------------------------------------------------------
\* C13
\* ------------------------------------------------------------------------
\* The last call wrote a log line
Logged == res.done /\ res.log.level # "none"

\* Every Python value found in the detail of a log line
DetailValues(detail) ==
  CASE detail[1] = "action"   -> {detail[2], detail[3]}
    [] detail[1] = "response" ->
         {detail[2]} \cup (IF IsDict(detail[2])
                           THEN {detail[2].v[i][2] : i \in 1..Len(detail[2].v)}
                           ELSE {})
    [] OTHER -> {}

\* C13: a line logged by execute (info on success, error on ActionError,
\* BadResponseError and NetworkError) holds none of the client's stored
\* credentials, and the same call with the same transport outcome on a
\* client that differs only in its stored token or username/password logs
\* the same line (and logs nothing when this one logs nothing).
C13_LogsWithoutCredentials ==
  res.done =>
    /\ twinLog = res.log
    /\ Logged =>
         /\ \A i \in 1..Len(res.log.str.data) :
               res.log.str.data[i][2] \notin StoredCredentials
         /\ res.log.str.method \notin StoredCredentials
         /\ DetailValues(res.log.detail) \cap StoredCredentials = {}
    /\ (Sent /\ res.raised \in {"", "ActionException", "BadResponseException",
                                "NetworkException"}) => Logged

\* A token client sent a classic request with its token in the body, the
\* call succeeded and the info line holds the parameters without the token
C13_Witness ==
  /\ Logged /\ Sent /\ Classic /\ TokenMode
  /\ res.log.level = "info"
  /\ DGet(Body.fields, K_token) = client.self.token
  /\ ~DHas(res.log.str.data, K_token)
  /\ Len(res.log.str.data) > 0
  /\ twinLog = res.log

====
